---- MODULE Spec2Model ----
(***************************************************************************)
(* Schedule analysis engine of the network-diagram editor: the CPM solver  *)
(* (App, calculatedTasks), the schedule-table edits that feed it, and the  *)
(* lane packing layout (NetworkDiagram, processedData).                    *)
(*                                                                         *)
(* Times are JavaScript numbers in days.  The model counts them in         *)
(* hundredths of a day, so that the layout's tolerances 0.01 and 0.1 and   *)
(* durations shorter than a tenth of a day are exact integers.             *)
(*                                                                         *)
(* An optional field (earlyStart?: number) is <<>> when undefined and      *)
(* <<v>> when it holds v.                                                  *)
(***************************************************************************)
EXTENDS Integers, Sequences, FiniteSets, TLC

VARIABLES
    tasks,            \* activeProject.tasks, the stored activity list
    calculatedTasks,  \* _tasks, the solver's working copy, returned when solved
    pc,               \* position of the recomputation
    fwdPasses,        \* iterations of the forward while(changed) loop so far
    bwdPasses,        \* iterations of the backward while(changed) loop so far
    pDuration,        \* pDuration of the solver (<<>> before it is computed)
    processedData,    \* the layout returned by processedData (<<>> before)
    edits,            \* calls of updateProjectsWithHistory so far
    history,          \* history: the project lists kept for undo and redo
    historyIndex,     \* historyIndex, counted from 0 as in the code
    activeProjectId,  \* activeProjectId
    uuids             \* ids drawn from crypto.randomUUID so far

\* The state of the editor around the recomputation.
editor == <<history, historyIndex, activeProjectId, uuids>>

vars == <<tasks, calculatedTasks, pc, fwdPasses, bwdPasses, pDuration,
          processedData, edits, history, historyIndex, activeProjectId, uuids>>

(***************************************************************************)
(* Bounds of the model.                                                    *)
(***************************************************************************)
MaxTasks == 3       \* activities in the input list
SmallTasks == 2     \* activities in the lists of SpecInvalid and SpecEdit
DurShort == 5       \* a duration below the lane tolerance (0.05 day)
DurLong == 100      \* a duration of one day
MaxEdits == 2       \* schedule-table edits in one behaviour
LayoutTasks == 4    \* activities in the lists of SpecLanes: one more than MinRows
AlignTasks == 5     \* activities in the lists of SpecAlign

\* The forward loop of a cyclic input never stops; the model follows either
\* loop for one pass more than the 2 x |activities| the contract allows.
MaxPasses == 2 * MaxTasks + 1

\* Durations of the lists the layout and the edits are checked on.
Durations == {0, DurShort, DurLong}

\* Durations of the lists of Spec: none, or a day.
WholeDurations == {0, DurLong}

(***************************************************************************)
(* Optional values and JavaScript's `x || d` on number | undefined.        *)
(***************************************************************************)
Undefined == <<>>

Val(x) == x[1]

OrElse(x, d) == IF x = Undefined \/ Val(x) = 0 THEN d ELSE Val(x)

Max(S) == CHOOSE x \in S : \A y \in S : y <= x

Min(S) == CHOOSE x \in S : \A y \in S : x <= y

Range(s) == {s[i] : i \in 1..Len(s)}

Abs(x) == IF x < 0 THEN -x ELSE x

(***************************************************************************)
(* Task (types.ts): the caller's fields and the solver-owned ones.         *)
(***************************************************************************)
Task(id, duration, predecessors, zone) ==
    [id |-> id, duration |-> duration, predecessors |-> predecessors,
     zone |-> zone, constraintDate |-> Undefined,
     earlyStart |-> Undefined, earlyFinish |-> Undefined,
     lateStart |-> Undefined, lateFinish |-> Undefined,
     totalFloat |-> Undefined, isCritical |-> Undefined]

\* taskMap.get(pid): the index of the task the Map holds for pid (the last
\* one of that id in the list), 0 when the Map has no such key.
TaskIndex(ts, pid) ==
    LET hits == {j \in 1..Len(ts) : ts[j].id = pid}
    IN IF hits = {} THEN 0 ELSE Max(hits)

(***************************************************************************)
(* CPM solver: forward pass.                                               *)
(***************************************************************************)
\* MaxES reading the predecessors' earlyStart in place of their earlyFinish.
MaxES_FromEarlyStart(ts, task) ==
    Max({0} \cup
        {Val(ts[TaskIndex(ts, pid)].earlyStart) :
            pid \in {q \in Range(task.predecessors) :
                        /\ TaskIndex(ts, q) # 0
                        /\ ts[TaskIndex(ts, q)].earlyFinish # Undefined}})

\* A maxES that starts from the task's constraintDate when one is set (a
\* start-no-earlier-than constraint).
MaxES_FromConstraint(ts, task) ==
    Max({OrElse(task.constraintDate, 0)} \cup
        {Val(ts[TaskIndex(ts, pid)].earlyFinish) :
            pid \in {q \in Range(task.predecessors) :
                        /\ TaskIndex(ts, q) # 0
                        /\ ts[TaskIndex(ts, q)].earlyFinish # Undefined}})

\* maxES of one task: 0, raised to the earlyFinish of every predecessor the
\* Map knows and whose earlyFinish is set.
MaxES(ts, task) ==
    Max({0} \cup
        {Val(ts[TaskIndex(ts, pid)].earlyFinish) :
            pid \in {q \in Range(task.predecessors) :
                        /\ TaskIndex(ts, q) # 0
                        /\ ts[TaskIndex(ts, q)].earlyFinish # Undefined}})

\* The body of _tasks.forEach for task i, in place.
ForwardStep(ts, i) ==
    LET maxES == MaxES(ts, ts[i])
    IN IF ts[i].earlyStart # <<maxES>>
       THEN [ts EXCEPT ![i].earlyStart = <<maxES>>,
                       ![i].earlyFinish = <<maxES + ts[i].duration>>]
       ELSE ts

\* A visit of the list that ends at the first task it changes.
RECURSIVE ForwardFrom_StopsAtChange(_, _)
ForwardFrom_StopsAtChange(ts, i) ==
    IF i > Len(ts) THEN ts
    ELSE IF ForwardStep(ts, i) # ts THEN ForwardStep(ts, i)
    ELSE ForwardFrom_StopsAtChange(ts, i + 1)

RECURSIVE ForwardFrom(_, _)
ForwardFrom(ts, i) ==
    IF i > Len(ts) THEN ts ELSE ForwardFrom(ForwardStep(ts, i), i + 1)

\* One iteration of while(changed): the forEach over the whole list.  A step
\* that assigns always changes earlyStart, so changed = (the list differs).
ForwardSweep(ts) == ForwardFrom(ts, 1)

\* A project duration read from the last activity of the list.
ProjectDuration_LastTask(ts) == OrElse(ts[Len(ts)].earlyFinish, 0)

\* Math.max(..._tasks.map(t => t.earlyFinish || 0), 0)
ProjectDuration(ts) ==
    Max({0} \cup {OrElse(ts[i].earlyFinish, 0) : i \in 1..Len(ts)})

(***************************************************************************)
(* CPM solver: backward pass.                                              *)
(***************************************************************************)
BackwardInit(ts, pd) ==
    [i \in 1..Len(ts) |->
        [ts[i] EXCEPT !.lateFinish = <<pd>>,
                      !.lateStart = <<pd - ts[i].duration>>]]

\* _tasks.filter(t => t.predecessors.includes(task.id)), as indices
Successors(ts, task) ==
    {j \in 1..Len(ts) : task.id \in Range(ts[j].predecessors)}

\* s.lateStart || pDuration
SuccessorLateStart(s, pd) == OrElse(s.lateStart, pd)

\* BackwardStep that lowers lateFinish and leaves lateStart as it was.
BackwardStep_KeepsLateStart(ts, i, pd) ==
    LET successors == Successors(ts, ts[i])
        minLS == Min({SuccessorLateStart(ts[j], pd) : j \in successors})
    IN IF successors # {} /\ ts[i].lateFinish # <<minLS>>
       THEN [ts EXCEPT ![i].lateFinish = <<minLS>>]
       ELSE ts

BackwardStep(ts, i, pd) ==
    LET successors == Successors(ts, ts[i])
        minLS == Min({SuccessorLateStart(ts[j], pd) : j \in successors})
    IN IF successors # {} /\ ts[i].lateFinish # <<minLS>>
       THEN [ts EXCEPT ![i].lateFinish = <<minLS>>,
                       ![i].lateStart = <<minLS - ts[i].duration>>]
       ELSE ts

RECURSIVE BackwardFrom(_, _, _)
BackwardFrom(ts, i, pd) ==
    IF i > Len(ts) THEN ts ELSE BackwardFrom(BackwardStep(ts, i, pd), i + 1, pd)

BackwardSweep(ts, pd) == BackwardFrom(ts, 1, pd)

(***************************************************************************)
(* CPM solver: float and criticality.                                      *)
(***************************************************************************)
\* TotalFloat measured from lateFinish in place of lateStart.
TotalFloat_FromLateFinish(t) == OrElse(t.lateFinish, 0) - OrElse(t.earlyStart, 0)

TotalFloat(t) == OrElse(t.lateStart, 0) - OrElse(t.earlyStart, 0)

FloatAndCritical(ts) ==
    [i \in 1..Len(ts) |->
        [ts[i] EXCEPT !.totalFloat = <<TotalFloat(ts[i])>>,
                      !.isCritical = <<TotalFloat(ts[i]) = 0>>]]

(***************************************************************************)
(* The solver as a function of its input list: the loops run to their      *)
(* fixed points, within the passes the model follows.                      *)
(***************************************************************************)
\* A forward pass that visits the list once, as if it were listed with
\* every predecessor before its successors.
ForwardLoop_SinglePass(ts, fuel) == ForwardSweep(ts)

RECURSIVE ForwardLoop(_, _)
ForwardLoop(ts, fuel) ==
    LET next == ForwardSweep(ts)
    IN IF next = ts \/ fuel = 0 THEN next ELSE ForwardLoop(next, fuel - 1)

RECURSIVE BackwardLoop(_, _, _)
BackwardLoop(ts, pd, fuel) ==
    LET next == BackwardSweep(ts, pd)
    IN IF next = ts \/ fuel = 0 THEN next ELSE BackwardLoop(next, pd, fuel - 1)

\* stops: both loops reached a fixed point; tasks: the list returned.
Solve(ts) ==
    LET forward == ForwardLoop(ts, MaxPasses)
        pd == ProjectDuration(forward)
        backward == BackwardLoop(BackwardInit(forward, pd), pd, MaxPasses)
    IN [stops |-> /\ ForwardSweep(forward) = forward
                  /\ BackwardSweep(backward, pd) = backward,
        tasks |-> FloatAndCritical(backward)]

(***************************************************************************)
(* Layout (NetworkDiagram, processedData).  A zone label is an integer,    *)
(* ordered as the strings are by Array.sort; EmptyLabel is the string ""   *)
(* and DefaultZone the sentinel label.                                     *)
(***************************************************************************)
EmptyLabel == 0
DefaultZone == 2
MinRows == 3            \* rows reserved per zone
AlignTolerance == 1     \* 0.01 day
LaneTolerance == 10     \* 0.1 day

\* A label that only an unset zone replaces by the sentinel.
ZoneOf_KeepsEmpty(t) ==
    IF t.zone = Undefined THEN DefaultZone ELSE Val(t.zone)

\* t.zone || sentinel
ZoneOf(t) ==
    IF t.zone = Undefined \/ Val(t.zone) = EmptyLabel THEN DefaultZone
    ELSE Val(t.zone)

RECURSIVE SortedSeq(_)
SortedSeq(S) == IF S = {} THEN <<>> ELSE <<Min(S)>> \o SortedSeq(S \ {Min(S)})

\* Array.from(new Set(_tasks.map(zone))).sort()
Zones(ts) == SortedSeq({ZoneOf(ts[i]) : i \in 1..Len(ts)})

\* The comparator of zoneTasks.sort: earlyStart || 0, then id; the sort is
\* stable, so equal keys keep the list order.
SortsBefore(ts, i, j) ==
    LET a == OrElse(ts[i].earlyStart, 0)
        b == OrElse(ts[j].earlyStart, 0)
    IN \/ a < b
       \/ a = b /\ ts[i].id < ts[j].id
       \/ a = b /\ ts[i].id = ts[j].id /\ i < j

RECURSIVE SortedTasks(_, _)
SortedTasks(ts, I) ==
    IF I = {} THEN <<>>
    ELSE LET first == CHOOSE i \in I : \A j \in I \ {i} : SortsBefore(ts, i, j)
         IN <<first>> \o SortedTasks(ts, I \ {first})

\* A filter on the stored label, which an activity with an unset zone
\* does not pass.
ZoneTasks_RawLabel(ts, zone) ==
    SortedTasks(ts, {i \in 1..Len(ts) : ts[i].zone = <<zone>>})

\* The zone's tasks (indices into the list), filtered then sorted.
ZoneTasks(ts, zone) ==
    SortedTasks(ts, {i \in 1..Len(ts) : ZoneOf(ts[i]) = zone})

\* directPred: the first listed predecessor that the Map knows, lies in the
\* zone and finishes where the task starts; 0 when find() returns undefined.
DirectPred(ts, task, zone) ==
    LET preds == task.predecessors
        ok == {k \in 1..Len(preds) :
                 /\ TaskIndex(ts, preds[k]) # 0
                 /\ ZoneOf(ts[TaskIndex(ts, preds[k])]) = zone
                 /\ Abs(OrElse(ts[TaskIndex(ts, preds[k])].earlyFinish, 0)
                        - OrElse(task.earlyStart, 0)) < AlignTolerance}
    IN IF ok = {} THEN 0 ELSE TaskIndex(ts, preds[Min(ok)])

\* A lane test that asks for a lane that ended strictly before the start.
LaneFree_Strict(lanes, i, task) ==
    lanes[i + 1] < OrElse(task.earlyStart, 0)

\* (lanes[i] || 0) <= (task.earlyStart || 0) + 0.1, lane i counted from 0
LaneFree(lanes, i, task) ==
    lanes[i + 1] <= OrElse(task.earlyStart, 0) + LaneTolerance

\* The lane of one task: the direct predecessor's lane when that is free,
\* else the first free lane, else a new one (= lanes.length).
AssignedLane(ts, task, zone, lanes, taskLaneMap) ==
    LET dp == DirectPred(ts, task, zone)
        aligned == /\ dp # 0
                   /\ ts[dp].id \in DOMAIN taskLaneMap
                   /\ LaneFree(lanes, taskLaneMap[ts[dp].id], task)
        free == {i \in 0..(Len(lanes) - 1) : LaneFree(lanes, i, task)}
    IN IF aligned THEN taskLaneMap[ts[dp].id]
       ELSE IF free # {} THEN Min(free)
       ELSE Len(lanes)

\* A row index that leaves out the zone's first row.
GlobalRowIndex_LaneOnly(zoneStartRow, assignedLane) == assignedLane

\* globalRowIndex: zoneStartRow + assignedLane
GlobalRowIndex(zoneStartRow, assignedLane) == zoneStartRow + assignedLane

\* A row count without the minimum height of a zone.
RowCount_NoMinimum(lanes) == Len(lanes)

\* rowCount = Math.max(lanes.length, 3)
RowCount(lanes) == Max({Len(lanes), MinRows})

\* zoneTasks.forEach, from position k of the sorted zone tasks.  acc holds
\* lanes (the tracked finish of each lane), taskLaneMap and layoutData.
RECURSIVE PackFrom(_, _, _, _, _, _)
PackFrom(ts, zone, order, k, zoneStartRow, acc) ==
    IF k > Len(order) THEN acc
    ELSE LET task == ts[order[k]]
             lane == AssignedLane(ts, task, zone, acc.lanes, acc.taskLaneMap)
             grown == IF lane = Len(acc.lanes) THEN Append(acc.lanes, 0)
                      ELSE acc.lanes
             entry == [task |-> order[k], id |-> task.id, laneIndex |-> lane,
                       globalRowIndex |-> GlobalRowIndex(zoneStartRow, lane),
                       zone |-> zone]
         IN PackFrom(ts, zone, order, k + 1, zoneStartRow,
              [lanes |-> [grown EXCEPT ![lane + 1] = OrElse(task.earlyFinish, 0)],
               taskLaneMap |->
                   [x \in DOMAIN acc.taskLaneMap \cup {task.id} |->
                       IF x = task.id THEN lane ELSE acc.taskLaneMap[x]],
               layoutData |-> Append(acc.layoutData, entry)])

\* zones.forEach, from zone z of the sorted zone list.
RECURSIVE LayoutFrom(_, _, _, _)
LayoutFrom(ts, zones, z, acc) ==
    IF z > Len(zones) THEN acc
    ELSE LET packed == PackFrom(ts, zones[z], ZoneTasks(ts, zones[z]), 1,
                                acc.currentGlobalRow,
                                [lanes |-> <<>>, taskLaneMap |-> acc.taskLaneMap,
                                 layoutData |-> acc.layoutData])
             rowCount == RowCount(packed.lanes)
         IN LayoutFrom(ts, zones, z + 1,
              [currentGlobalRow |-> acc.currentGlobalRow + rowCount,
               taskLaneMap |-> packed.taskLaneMap,
               layoutData |-> packed.layoutData,
               zoneMeta |-> Append(acc.zoneMeta,
                   [name |-> zones[z], startRow |-> acc.currentGlobalRow,
                    rowCount |-> rowCount,
                    endRow |-> acc.currentGlobalRow + rowCount])])

\* The value processedData returns for the task list it is given.
ProcessedData(ts) ==
    LET done == LayoutFrom(ts, Zones(ts), 1,
                    [currentGlobalRow |-> 0, taskLaneMap |-> <<>>,
                     layoutData |-> <<>>, zoneMeta |-> <<>>])
    IN [tasks |-> done.layoutData,
        projectDuration |-> ProjectDuration(ts),
        criticalPathIds |->
            SelectSeq([i \in 1..Len(ts) |-> ts[i].id],
                      LAMBDA id : \E i \in 1..Len(ts) :
                          ts[i].id = id /\ ts[i].isCritical = <<TRUE>>),
        zoneMeta |-> done.zoneMeta,
        totalRows |-> done.currentGlobalRow]

(***************************************************************************)
(* Dependency connectors (the D3 renderer and the draw.io exporter).       *)
(***************************************************************************)
\* (task.earlyStart || 0) - (pred.earlyFinish || 0)
Gap(task, pred) == OrElse(task.earlyStart, 0) - OrElse(pred.earlyFinish, 0)

\* Math.round of a number of days: the nearest whole day, a half rounded up.
RoundDays(x) == ((x + 50) \div 100) * 100

\* handleExportDrawio: a wait connector when gap > 0, else a direct one.
ExportClass(task, pred) ==
    IF Gap(task, pred) > 0 THEN "FreeFloat" ELSE "Contiguous"

\* draw: a wave when gapDays = Math.round(gap) > 0, else a direct link.
RenderClass(task, pred) ==
    IF RoundDays(Gap(task, pred)) > 0 THEN "FreeFloat" ELSE "Contiguous"

(***************************************************************************)
(* Input lists.  Task i of a list has id i; a predecessor list holds each  *)
(* id at most once.                                                        *)
(***************************************************************************)
\* Every list without repetition over a subset of S, in every order.
RECURSIVE Orderings(_)
Orderings(S) ==
    {<<>>} \cup UNION {{<<x>> \o r : r \in Orderings(S \ {x})} : x \in S}

\* Every order of the positions 1..n.
ListOrders(n) == {o \in Orderings(1..n) : Len(o) = n}

\* The list with its activities in the order o.
Permute(ts, o) == [k \in 1..Len(ts) |-> ts[o[k]]]

TaskList(n, duration, predecessors, zone) ==
    [i \in 1..n |-> Task(i, duration[i], predecessors[i], zone[i])]

Ids(ts) == {ts[i].id : i \in 1..Len(ts)}

\* The predecessor relation has no cycle (a self reference is one): every
\* non-empty set of tasks has a member none of whose predecessors is in it.
Acyclic(ts) ==
    \A S \in SUBSET (1..Len(ts)) \ {{}} :
        \E i \in S : Range(ts[i].predecessors) \cap {ts[j].id : j \in S} = {}

NoUnknownPredecessor(ts) ==
    \A i \in 1..Len(ts) : Range(ts[i].predecessors) \subseteq Ids(ts)

NoNegativeDuration(ts) == \A i \in 1..Len(ts) : ts[i].duration >= 0

NoComputedField(ts) ==
    \A i \in 1..Len(ts) :
        /\ ts[i].earlyStart = Undefined /\ ts[i].earlyFinish = Undefined
        /\ ts[i].lateStart = Undefined /\ ts[i].lateFinish = Undefined
        /\ ts[i].totalFloat = Undefined /\ ts[i].isCritical = Undefined

\* An acyclic activity set as the data model describes it.
ValidInput(ts) ==
    /\ Acyclic(ts) /\ NoUnknownPredecessor(ts)
    /\ NoNegativeDuration(ts) /\ NoComputedField(ts)

\* The acyclic predecessor relations of n tasks with lists drawn from lists.
AcyclicRelations(n, lists) ==
    {p \in [1..n -> lists] :
        Acyclic(TaskList(n, [i \in 1..n |-> 0], p, [i \in 1..n |-> Undefined]))}

\* A project: its id and its tasks (name, lastModified and annotations are
\* left out).
Project(id, ts) == [id |-> id, tasks |-> ts]

\* id: '1' of initialProject
InitialProjectId == 1

\* projects.find(p => p.id === activeProjectId) || projects[0]; undefined
\* when the list is empty.
ActiveProject(projects, id) ==
    LET hits == {k \in 1..Len(projects) : projects[k].id = id}
    IN IF hits # {} THEN <<projects[Min(hits)]>>
       ELSE IF projects # <<>> THEN <<projects[1]>>
       ELSE Undefined

\* The state after construction, for a first project with the tasks ts.
InitWith(ts) ==
    /\ history = <<<<Project(InitialProjectId, ts)>>>>
    /\ historyIndex = 0
    /\ activeProjectId = InitialProjectId
    /\ uuids = 0
    /\ tasks = ts
    /\ calculatedTasks = <<>>
    /\ pc = "start"
    /\ fwdPasses = 0
    /\ bwdPasses = 0
    /\ pDuration = Undefined
    /\ processedData = Undefined
    /\ edits = 0

\* Acyclic lists over the list's own ids, no zone set.  The solver reads
\* predecessors as a set, so each is listed in ascending order.
Init ==
    \E n \in 1..MaxTasks :
        \E predecessors \in AcyclicRelations(n, {SortedSeq(S) : S \in SUBSET (1..n)}),
           duration \in [1..n -> WholeDurations] :
            InitWith(TaskList(n, duration, predecessors,
                              [i \in 1..n |-> Undefined]))

\* Any predecessor relation over the list's own ids, cycles and self
\* references included.
InitAnyGraph ==
    \E n \in 1..MaxTasks :
        \E predecessors \in [1..n -> {SortedSeq(S) : S \in SUBSET (1..n)}],
           duration \in [1..n -> Durations] :
            InitWith(TaskList(n, duration, predecessors,
                              [i \in 1..n |-> Undefined]))

\* Acyclic lists with predecessors in every order, over two zones, one of
\* them the default zone.
InitLayout ==
    \E n \in 1..MaxTasks :
        \E predecessors \in AcyclicRelations(n, Orderings(1..n)),
           duration \in [1..n -> Durations],
           zone \in [1..n -> {Undefined, <<1>>}] :
            InitWith(TaskList(n, duration, predecessors, zone))

\* Lists that break the data model: a predecessor id no task has
\* (SmallTasks + 1), a negative duration.
InitInvalid ==
    \E n \in 1..SmallTasks :
        \E predecessors \in [1..n -> {SortedSeq(S) :
                                        S \in SUBSET (1..(SmallTasks + 1))}],
           duration \in [1..n -> {-DurLong, 0, DurLong}] :
            InitWith(TaskList(n, duration, predecessors,
                              [i \in 1..n |-> Undefined]))

\* Lists of up to LayoutTasks activities, each with no predecessor or with
\* the activity listed before it as its only one, in one of two zones.
InitLanes ==
    \E n \in 1..LayoutTasks :
        \E chained \in SUBSET (2..n),
           duration \in [1..n -> WholeDurations],
           zone \in [1..n -> {Undefined, <<1>>}] :
            InitWith(TaskList(n, duration,
                              [i \in 1..n |-> IF i \in chained THEN <<i - 1>>
                                              ELSE <<>>],
                              zone))

\* Lists of up to MaxTasks one-day activities whose zone is unset, empty,
\* the sentinel label itself, or a label that sorts before or after it.
ZoneLabels ==
    {Undefined, <<EmptyLabel>>, <<DefaultZone - 1>>, <<DefaultZone>>,
     <<DefaultZone + 1>>}

InitZones ==
    \E n \in 1..MaxTasks :
        \E chained \in SUBSET (2..n),
           zone \in [1..n -> ZoneLabels] :
            InitWith(TaskList(n, [i \in 1..n |-> DurLong],
                              [i \in 1..n |-> IF i \in chained THEN <<i - 1>>
                                              ELSE <<>>],
                              zone))

\* n days, in the unit of the durations.
Days(n) == n * DurLong

\* Lists of up to SmallTasks activities of no, one or two days, each with
\* no predecessor or with the activity listed before it as its only one.
InitEndDate ==
    \E n \in 1..SmallTasks :
        \E chained \in SUBSET (2..n),
           duration \in [1..n -> {0, Days(1), Days(2)}] :
            InitWith(TaskList(n, duration,
                              [i \in 1..n |-> IF i \in chained THEN <<i - 1>>
                                              ELSE <<>>],
                              [i \in 1..n |-> Undefined]))

\* The worked example: A (20 days), B (90 days, after A), C (30 days, after
\* A), D (5 days, after B and C), with ids 1 to 4.
ExampleTasks ==
    <<Task(1, Days(20), <<>>, Undefined),
      Task(2, Days(90), <<1>>, Undefined),
      Task(3, Days(30), <<1>>, Undefined),
      Task(4, Days(5), <<2, 3>>, Undefined)>>

\* The example's activities, listed in any order.
InitExample ==
    \E o \in ListOrders(Len(ExampleTasks)) : InitWith(Permute(ExampleTasks, o))

\* The predecessor lists of n activities, each a list of at most two of the
\* activities listed before it, in either order.
RECURSIVE EarlierPredecessors(_)
EarlierPredecessors(n) ==
    IF n = 0 THEN {<<>>}
    ELSE {Append(rest, last) :
             rest \in EarlierPredecessors(n - 1),
             last \in {o \in Orderings(1..(n - 1)) : Len(o) <= 2}}

\* Lists of up to AlignTasks one-day activities of one zone.
InitAlign ==
    \E n \in 1..AlignTasks :
        \E predecessors \in EarlierPredecessors(n) :
            InitWith(TaskList(n, [i \in 1..n |-> Days(1)], predecessors,
                              [i \in 1..n |-> Undefined]))

\* Lists of up to SmallTasks one-day activities, each with no predecessor
\* or with the activity listed before it as its only one.
InitConstraint ==
    \E n \in 1..SmallTasks :
        \E chained \in SUBSET (2..n) :
            InitWith(TaskList(n, [i \in 1..n |-> Days(1)],
                              [i \in 1..n |-> IF i \in chained THEN <<i - 1>>
                                              ELSE <<>>],
                              [i \in 1..n |-> Undefined]))

\* '一工区', the zone of the first tasks of initialProject and of a new task.
ZoneOne == 1

\* The step between the ids of initialProject, and from the highest id to
\* the id of a new task.
IdStep == 10

\* initialProject, cut down to its first three activities: '10', '20'
\* after it and '30' after that.
InitTasks ==
    InitWith(<<Task(IdStep, Days(1), <<>>, <<ZoneOne>>),
               Task(2 * IdStep, Days(1), <<IdStep>>, <<ZoneOne>>),
               Task(3 * IdStep, Days(1), <<2 * IdStep>>, <<ZoneOne>>)>>)

InitEdit ==
    \E n \in 1..SmallTasks :
        \E predecessors \in [1..n -> {SortedSeq(S) : S \in SUBSET (1..n)}],
           duration \in [1..n -> Durations] :
            InitWith(TaskList(n, duration, predecessors,
                              [i \in 1..n |-> Undefined]))

(***************************************************************************)
(* The recomputation (useMemo of calculatedTasks, then of processedData).  *)
(***************************************************************************)
\* JSON.parse(JSON.stringify(activeProject.tasks)): a deep copy that keeps
\* every field that is set.
StartSolve ==
    /\ pc = "start"
    /\ calculatedTasks' = tasks
    /\ pc' = "forward"
    /\ fwdPasses' = 0
    /\ bwdPasses' = 0
    /\ pDuration' = Undefined
    /\ processedData' = Undefined
    /\ UNCHANGED <<tasks, edits>>
    /\ UNCHANGED editor

\* One iteration of the forward while(changed) loop.
ForwardPass ==
    /\ pc = "forward"
    /\ fwdPasses < MaxPasses
    /\ calculatedTasks' = ForwardSweep(calculatedTasks)
    /\ fwdPasses' = fwdPasses + 1
    /\ pc' = IF calculatedTasks' # calculatedTasks THEN "forward" ELSE "backinit"
    /\ UNCHANGED <<tasks, bwdPasses, pDuration, processedData, edits>>
    /\ UNCHANGED editor

\* pDuration and the initial late times.
InitBackward ==
    /\ pc = "backinit"
    /\ pDuration' = <<ProjectDuration(calculatedTasks)>>
    /\ calculatedTasks' = BackwardInit(calculatedTasks, ProjectDuration(calculatedTasks))
    /\ pc' = "backward"
    /\ UNCHANGED <<tasks, fwdPasses, bwdPasses, processedData, edits>>
    /\ UNCHANGED editor

\* One iteration of the backward while(changed) loop.
BackwardPass ==
    /\ pc = "backward"
    /\ bwdPasses < MaxPasses
    /\ calculatedTasks' = BackwardSweep(calculatedTasks, Val(pDuration))
    /\ bwdPasses' = bwdPasses + 1
    /\ pc' = IF calculatedTasks' # calculatedTasks THEN "backward" ELSE "float"
    /\ UNCHANGED <<tasks, fwdPasses, pDuration, processedData, edits>>
    /\ UNCHANGED editor

\* totalFloat and isCritical; the solver returns _tasks.
ComputeFloat ==
    /\ pc = "float"
    /\ calculatedTasks' = FloatAndCritical(calculatedTasks)
    /\ pc' = "solved"
    /\ UNCHANGED <<tasks, fwdPasses, bwdPasses, pDuration, processedData, edits>>
    /\ UNCHANGED editor

\* A layout that sorts the list it is given instead of each zone's filtered
\* copy of it.
Layout_SortsInput ==
    /\ pc = "solved"
    /\ processedData' = <<ProcessedData(calculatedTasks)>>
    /\ calculatedTasks' =
          LET order == SortedTasks(calculatedTasks, 1..Len(calculatedTasks))
          IN [k \in 1..Len(calculatedTasks) |-> calculatedTasks[order[k]]]
    /\ pc' = "drawn"
    /\ UNCHANGED <<tasks, fwdPasses, bwdPasses, pDuration, edits>>
    /\ UNCHANGED editor

\* NetworkDiagram lays out the solved tasks it is given: _tasks.filter makes
\* each zone's list, and it is that list which is sorted.
Layout ==
    /\ pc = "solved"
    /\ processedData' = <<ProcessedData(calculatedTasks)>>
    /\ pc' = "drawn"
    /\ UNCHANGED <<tasks, calculatedTasks, fwdPasses, bwdPasses, pDuration, edits>>
    /\ UNCHANGED editor

(***************************************************************************)
(* The editor (App): projects, history and the handlers of the tables.     *)
(***************************************************************************)
\* projects = history[historyIndex]
Projects == history[historyIndex + 1]

\* The render after a state change: activeProject.tasks is read again and
\* the recomputation starts; reading .tasks of undefined throws.
Rerender ==
    LET active == ActiveProject(history'[historyIndex' + 1], activeProjectId')
    IN IF active = Undefined
       THEN tasks' = <<>> /\ pc' = "error"
       ELSE tasks' = Val(active).tasks /\ pc' = "start"

\* A push that keeps the undone entries and moves to the next index.
UpdateProjectsWithHistory_KeepsUndone(newProjects) ==
    /\ history' = Append(history, newProjects)
    /\ historyIndex' = historyIndex + 1
    /\ edits' = edits + 1

\* updateProjectsWithHistory: the entries after historyIndex are dropped and
\* the new list becomes the last entry.
UpdateProjectsWithHistory(newProjects) ==
    /\ history' = Append(SubSeq(history, 1, historyIndex + 1), newProjects)
    /\ historyIndex' = Len(history') - 1
    /\ edits' = edits + 1

\* handleUpdateTasks: the project whose id is activeProjectId gets newTasks.
HandleUpdateTasks(newTasks) ==
    /\ UpdateProjectsWithHistory(
          [k \in 1..Len(Projects) |->
              IF Projects[k].id = activeProjectId
              THEN [Projects[k] EXCEPT !.tasks = newTasks]
              ELSE Projects[k]])
    /\ UNCHANGED <<activeProjectId, uuids>>
    /\ Rerender
    /\ UNCHANGED <<calculatedTasks, fwdPasses, bwdPasses, pDuration, processedData>>

\* handleTaskUpdate: updatedTask takes the place of the stored task of its id.
HandleTaskUpdate(updatedTask) ==
    HandleUpdateTasks([j \in 1..Len(tasks) |->
                          IF tasks[j].id = updatedTask.id THEN updatedTask
                          ELSE tasks[j]])

\* The duration input of a schedule-table row.  The row shows a calculated
\* task; onChange sends {...task, duration} and handleTaskUpdate stores it
\* in place of the task of that id, which starts a recomputation.  parseInt
\* yields whole days.
EditDuration ==
    /\ pc = "drawn"
    /\ edits < MaxEdits
    /\ \E i \in 1..Len(calculatedTasks), d \in {0, DurLong, 2 * DurLong} :
          HandleTaskUpdate([calculatedTasks[i] EXCEPT !.duration = d])

\* parseInt(t.id) || 0.  An id is the number its string spells; a negative
\* id stands for a string that spells no number.
ParseIntOrZero(id) == IF id < 0 THEN 0 ELSE id

\* The task handleAddTask builds.
NewTask ==
    Task(Max({0} \cup {ParseIntOrZero(tasks[i].id) : i \in 1..Len(tasks)}) + IdStep,
         Days(1), <<>>, <<ZoneOne>>)

\* handleAddTask ("new task" button of the schedule table)
AddTask ==
    /\ pc = "drawn"
    /\ edits < MaxEdits
    /\ HandleUpdateTasks(Append(tasks, NewTask))

\* handleDeleteTask, from the delete button of a row
DeleteTask ==
    /\ pc = "drawn"
    /\ edits < MaxEdits
    /\ \E i \in 1..Len(calculatedTasks) :
          HandleUpdateTasks(SelectSeq(tasks,
              LAMBDA t : t.id # calculatedTasks[i].id))

\* togglePredecessor(targetTask, predId) for rows i and j of the table.
TogglePredecessorOf(i, j) ==
    LET targetTask == calculatedTasks[i]
        predId == calculatedTasks[j].id
        newPreds == IF predId \in Range(targetTask.predecessors)
                    THEN SelectSeq(targetTask.predecessors,
                                   LAMBDA id : id # predId)
                    ELSE Append(targetTask.predecessors, predId)
    IN /\ pc = "drawn"
       /\ edits < MaxEdits
       /\ HandleTaskUpdate([targetTask EXCEPT !.predecessors = newPreds])

\* The link dialog of a row offers the ids of the other rows.
TogglePredecessor ==
    \E i, j \in 1..Len(calculatedTasks) :
        /\ calculatedTasks[j].id # calculatedTasks[i].id
        /\ TogglePredecessorOf(i, j)

\* The id input of row i: onUpdateTask({...task, id: e.target.value})
EditIdOf(i, id) ==
    /\ pc = "drawn"
    /\ edits < MaxEdits
    /\ HandleTaskUpdate([calculatedTasks[i] EXCEPT !.id = id])

\* The ids typed into a row: the id of another row, an unused number or a
\* text that is no number.
TypedIds(i) ==
    (Ids(calculatedTasks) \cup {IdStep - 1, -1}) \ {calculatedTasks[i].id}

EditId ==
    \E i \in 1..Len(calculatedTasks) : \E id \in TypedIds(i) : EditIdOf(i, id)

\* handleStartChange, from the start-date input of a row: a date sets
\* constraintDate to its day offset, an emptied input removes the field.
StartChange ==
    /\ pc = "drawn"
    /\ edits < MaxEdits
    /\ \E i \in 1..Len(calculatedTasks),
          newStart \in {Undefined, <<Days(1)>>, <<Days(2)>>} :
          HandleTaskUpdate([calculatedTasks[i] EXCEPT !.constraintDate = newStart])

\* formatDateForInput: '' for no offset, else the calendar day that
\* setDate(getDate() + offset) reaches, which drops the fraction of a day.
\* A date string is the number of its day, counted from the project start.
FormatDateForInput(offset) ==
    IF offset = Undefined THEN Undefined ELSE <<Val(offset) \div 100>>

\* getDaysFromDateStr: the whole days from the project start to the date
GetDaysFromDateStr(dateStr) == Val(dateStr) * 100

\* displayEndOffset of a row: the inclusive end day
DisplayEndOffset(task) ==
    IF OrElse(task.earlyFinish, 0) > OrElse(task.earlyStart, 0)
    THEN OrElse(task.earlyFinish, 0) - 100
    ELSE OrElse(task.earlyFinish, 0)

\* newDuration of handleEndChange: Math.max(0, (selected - start) + 1)
NewDuration(task, dateStr) ==
    Max({0, (GetDaysFromDateStr(dateStr) - OrElse(task.earlyStart, 0)) + 100})

\* handleEndChange(task, dateStr) for row i; an emptied input does nothing.
HandleEndChange(i, dateStr) ==
    /\ pc = "drawn"
    /\ edits < MaxEdits
    /\ IF dateStr = Undefined THEN UNCHANGED vars
       ELSE HandleTaskUpdate([calculatedTasks[i] EXCEPT
                                 !.duration = NewDuration(calculatedTasks[i],
                                                          dateStr)])

\* The end-date input of a row: the date shown, emptied, or one of the first
\* days of the project.
EndChange ==
    \E i \in 1..Len(calculatedTasks) :
        \E dateStr \in {Undefined, <<0>>, <<1>>, <<2>>,
                        FormatDateForInput(<<DisplayEndOffset(calculatedTasks[i])>>)} :
            HandleEndChange(i, dateStr)

\* crypto.randomUUID(): an id that no project has had before.
NewUuid == InitialProjectId + uuids + 1

\* The handlers that append a project: the new project becomes the active
\* one.
AppendProject(newProject) ==
    /\ UpdateProjectsWithHistory(Append(Projects, newProject))
    /\ activeProjectId' = newProject.id
    /\ uuids' = uuids + 1
    /\ Rerender
    /\ UNCHANGED <<calculatedTasks, fwdPasses, bwdPasses, pDuration,
                   processedData>>

HandleAddProject ==
    /\ pc = "drawn"
    /\ edits < MaxEdits
    /\ AppendProject(Project(NewUuid, <<>>))

\* The task lists an imported file yields.
ImportedTasks ==
    {<<Task(IdStep, Days(1), <<>>, <<ZoneOne>>)>>,
     <<Task(IdStep, Days(2), <<>>, <<ZoneOne>>),
       Task(2 * IdStep, Days(1), <<IdStep>>, <<ZoneOne>>)>>}

HandleImportProject ==
    /\ pc = "drawn"
    /\ edits < MaxEdits
    /\ \E importedTasks \in ImportedTasks :
          AppendProject(Project(NewUuid, importedTasks))

\* handleDeleteProject(id), from the delete button of a project of the list
HandleDeleteProject ==
    /\ pc = "drawn"
    /\ edits < MaxEdits
    /\ \E k \in 1..Len(Projects) :
          LET id == Projects[k].id
              newProjects == SelectSeq(Projects, LAMBDA p : p.id # id)
          IN /\ UpdateProjectsWithHistory(newProjects)
             /\ activeProjectId' =
                   IF activeProjectId = id /\ Len(newProjects) > 0
                   THEN newProjects[1].id ELSE activeProjectId
             /\ UNCHANGED uuids
             /\ Rerender
             /\ UNCHANGED <<calculatedTasks, fwdPasses, bwdPasses, pDuration,
                            processedData>>

\* onSelectProject = setActiveProjectId, from a click on a project of the
\* list.
SetActiveProjectId ==
    /\ pc = "drawn"
    /\ \E k \in 1..Len(Projects) :
          /\ Projects[k].id # activeProjectId
          /\ activeProjectId' = Projects[k].id
          /\ UNCHANGED <<history, historyIndex, uuids, edits>>
          /\ Rerender
          /\ UNCHANGED <<calculatedTasks, fwdPasses, bwdPasses, pDuration,
                         processedData>>

\* setHistoryIndex(index), then the render with history[index]
SetHistoryIndex(index) ==
    /\ historyIndex' = index
    /\ UNCHANGED <<history, activeProjectId, uuids, edits>>
    /\ Rerender
    /\ UNCHANGED <<calculatedTasks, fwdPasses, bwdPasses, pDuration,
                   processedData>>

\* handleUndo, from the button or the keyboard
HandleUndo ==
    /\ pc = "drawn"
    /\ IF historyIndex > 0 THEN SetHistoryIndex(historyIndex - 1)
       ELSE UNCHANGED vars

\* handleRedo, from the button or the keyboard
HandleRedo ==
    /\ pc = "drawn"
    /\ IF historyIndex < Len(history) - 1 THEN SetHistoryIndex(historyIndex + 1)
       ELSE UNCHANGED vars

Next ==
    \/ StartSolve
    \/ ForwardPass
    \/ InitBackward
    \/ BackwardPass
    \/ ComputeFloat
    \/ Layout

NextEdit == Next \/ EditDuration

NextConstraint == Next \/ StartChange

NextEndDate == Next \/ EndChange

NextAddDelete == Next \/ AddTask \/ DeleteTask

NextTasks == NextAddDelete \/ TogglePredecessor \/ EditId

NextHistory == NextAddDelete \/ HandleUndo \/ HandleRedo

NextProjects ==
    \/ Next
    \/ HandleAddProject
    \/ HandleImportProject
    \/ HandleDeleteProject
    \/ SetActiveProjectId
    \/ HandleUndo
    \/ HandleRedo

Spec == Init /\ [][Next]_vars

SpecAnyGraph == InitAnyGraph /\ [][Next]_vars

SpecLayout == InitLayout /\ [][Next]_vars

SpecInvalid == InitInvalid /\ [][Next]_vars

SpecEdit == InitEdit /\ [][NextEdit]_vars

SpecLanes == InitLanes /\ [][Next]_vars

SpecZones == InitZones /\ [][Next]_vars

SpecExample == InitExample /\ [][Next]_vars

SpecAddDelete == InitTasks /\ [][NextAddDelete]_vars

SpecTasks == InitTasks /\ [][NextTasks]_vars

SpecEndDate == InitEndDate /\ [][NextEndDate]_vars

SpecHistory == InitTasks /\ [][NextHistory]_vars

SpecProjects == InitTasks /\ [][NextProjects]_vars

SpecAlign == InitAlign /\ [][Next]_vars

SpecConstraint == InitConstraint /\ [][NextConstraint]_vars

(***************************************************************************)
(* Claims about the CPM solver.                                            *)
(***************************************************************************)
ForwardStopped == pc \in {"backinit", "backward", "float", "solved", "drawn"}

BackwardStopped == pc \in {"float", "solved", "drawn"}

Solved == pc \in {"solved", "drawn"}

\* The tasks of the working copy that task i lists as predecessors.
PredecessorsOf(ts, i) == {j \in 1..Len(ts) : ts[j].id \in Range(ts[i].predecessors)}

\* C1: for an acyclic activity set without computed fields, once the forward
\* pass has stopped every activity's earlyStart is the maximum earlyFinish
\* of its predecessors, and 0 when it has none.
C1_EarlyStartIsMaxPredecessorFinish ==
    (ValidInput(tasks) /\ ForwardStopped) =>
        \A i \in 1..Len(calculatedTasks) :
            LET P == PredecessorsOf(calculatedTasks, i)
            IN /\ calculatedTasks[i].earlyStart # Undefined
               /\ \A j \in P : calculatedTasks[j].earlyFinish # Undefined
               /\ Val(calculatedTasks[i].earlyStart) =
                    IF P = {} THEN 0
                    ELSE Max({Val(calculatedTasks[j].earlyFinish) : j \in P})

\* The forward pass has stopped on a task with two predecessors that finish
\* at different times.
C1_Witness ==
    /\ ValidInput(tasks) /\ pc = "backinit"
    /\ \E i \in 1..Len(calculatedTasks) :
          \E j, k \in PredecessorsOf(calculatedTasks, i) :
              /\ Val(calculatedTasks[j].earlyFinish) < Val(calculatedTasks[k].earlyFinish)
              /\ Val(calculatedTasks[i].earlyStart) = Val(calculatedTasks[k].earlyFinish)

\* C2: for an acyclic activity set, once the backward pass has stopped every
\* activity with a successor has lateFinish equal to the minimum lateStart
\* of its successors (a lateStart of 0 included), and every activity without
\* a successor has lateFinish equal to the project duration.
C2_LateFinishIsMinSuccessorStart ==
    (ValidInput(tasks) /\ BackwardStopped) =>
        \A i \in 1..Len(calculatedTasks) :
            LET S == Successors(calculatedTasks, calculatedTasks[i])
            IN Val(calculatedTasks[i].lateFinish) =
                 IF S = {} THEN Val(pDuration)
                 ELSE Min({Val(calculatedTasks[j].lateStart) : j \in S})

\* C3: for an acyclic activity set, after both passes every activity has
\* totalFloat = lateStart - earlyStart >= 0 and isCritical exactly when
\* totalFloat is 0.
C3_FloatAndCriticality ==
    (ValidInput(tasks) /\ Solved) =>
        \A i \in 1..Len(calculatedTasks) :
            LET t == calculatedTasks[i]
            IN /\ Val(t.totalFloat) = Val(t.lateStart) - Val(t.earlyStart)
               /\ Val(t.totalFloat) >= 0
               /\ Val(t.isCritical) <=> (Val(t.totalFloat) = 0)

\* A solved list with a critical activity and one with positive float.
C3_Witness ==
    /\ ValidInput(tasks) /\ Solved
    /\ \E i, j \in 1..Len(calculatedTasks) :
          /\ calculatedTasks[i].isCritical = <<TRUE>>
          /\ calculatedTasks[j].isCritical = <<FALSE>>
          /\ Val(calculatedTasks[j].totalFloat) > 0

\* path is a chain of critical activities, each a predecessor of the next,
\* from an activity without predecessors that starts at 0 to an activity
\* without successors that finishes at the project duration.
CriticalChain(ts, pd, path) ==
    /\ path # <<>>
    /\ \A k \in 1..Len(path) : ts[path[k]].isCritical = <<TRUE>>
    /\ \A k \in 1..(Len(path) - 1) :
          ts[path[k]].id \in Range(ts[path[k + 1]].predecessors)
    /\ ts[path[1]].predecessors = <<>>
    /\ ts[path[1]].earlyStart = <<0>>
    /\ Successors(ts, ts[path[Len(path)]]) = {}
    /\ ts[path[Len(path)]].earlyFinish = <<pd>>

\* C4: for a non-empty acyclic activity set the critical activities contain
\* a chain of predecessor edges from a critical start to a critical end.
C4_CriticalPathExists ==
    (ValidInput(tasks) /\ Solved) =>
        \E path \in Orderings(1..Len(calculatedTasks)) :
            CriticalChain(calculatedTasks, Val(pDuration), path)

\* C5: for an input whose predecessor relation has a cycle the solver stops
\* within 2 x |activities| iterations of either loop and returns no timing
\* values.
C5_CycleStopsSolver ==
    ~Acyclic(tasks) =>
        /\ fwdPasses <= 2 * Len(tasks)
        /\ bwdPasses <= 2 * Len(tasks)
        /\ ~Solved

\* C7: once an acyclic input without computed fields is solved, every
\* activity has earlyFinish = earlyStart + duration and
\* lateFinish - lateStart = duration.
C7_FinishIsStartPlusDuration ==
    (ValidInput(tasks) /\ Solved) =>
        \A i \in 1..Len(calculatedTasks) :
            LET t == calculatedTasks[i]
            IN /\ Val(t.earlyFinish) = Val(t.earlyStart) + t.duration
               /\ Val(t.lateFinish) - Val(t.lateStart) = t.duration

\* A solved list in which an activity of positive duration has a successor
\* and a lateFinish that the backward loop lowered.
C7_Witness ==
    /\ ValidInput(tasks) /\ Solved
    /\ \E i \in 1..Len(calculatedTasks) :
          /\ calculatedTasks[i].duration > 0
          /\ Successors(calculatedTasks, calculatedTasks[i]) # {}
          /\ Val(calculatedTasks[i].lateFinish) < Val(pDuration)
          /\ Val(calculatedTasks[i].earlyStart) > 0

\* The list with every solver-owned field removed.
WithoutComputedFields(ts) ==
    [i \in 1..Len(ts) |->
        Task(ts[i].id, ts[i].duration, ts[i].predecessors, ts[i].zone)]

\* C6: all computed fields are recomputed on every call: for a stored list
\* whose activities carry computed fields of an earlier solve, the solver
\* returns what it returns for the same list without those fields, so that
\* after a duration edit every activity has earlyFinish = earlyStart +
\* duration.
C6_RecomputedFully ==
    (Solved /\ Solve(WithoutComputedFields(tasks)).stops) =>
        /\ calculatedTasks = Solve(WithoutComputedFields(tasks)).tasks
        /\ \A i \in 1..Len(calculatedTasks) :
              Val(calculatedTasks[i].earlyFinish) =
                  Val(calculatedTasks[i].earlyStart) + calculatedTasks[i].duration

\* C8: when an activity lists a predecessor id that no activity of the input
\* has, no CPM timing is computed.  Stated for lists whose durations are
\* valid, so that the unknown id is the list's only defect.
C8_UnknownPredecessorRejected ==
    (~NoUnknownPredecessor(tasks) /\ NoNegativeDuration(tasks)) =>
        NoComputedField(calculatedTasks)

\* C9: when an activity of the input has a negative duration, no timing is
\* produced.  Stated for lists whose predecessor ids are all known, so that
\* the duration is the list's only defect.
C9_NegativeDurationRejected ==
    (~NoNegativeDuration(tasks) /\ NoUnknownPredecessor(tasks)) =>
        NoComputedField(calculatedTasks)

(***************************************************************************)
(* Claims about the layout.                                                *)
(***************************************************************************)
LayoutData == Val(processedData).tasks

\* The half-open intervals [earlyStart, earlyFinish) of two tasks overlap.
Overlap(a, b) ==
    Max({Val(a.earlyStart), Val(b.earlyStart)}) <
        Min({Val(a.earlyFinish), Val(b.earlyFinish)})

\* C10: no two activities of one zone are assigned the same laneIndex when
\* their intervals [earlyStart, earlyFinish) overlap.
C10_NoOverlapInLane ==
    pc = "drawn" =>
        \A x, y \in 1..Len(LayoutData) :
            (/\ x # y
             /\ LayoutData[x].zone = LayoutData[y].zone
             /\ LayoutData[x].laneIndex = LayoutData[y].laneIndex)
            => ~Overlap(calculatedTasks[LayoutData[x].task],
                        calculatedTasks[LayoutData[y].task])

\* The layout entries of one zone.
ZoneEntries(zone) == {x \in 1..Len(LayoutData) : LayoutData[x].zone = zone}

\* The zone labels of the layout.
ZoneNames == {LayoutData[x].zone : x \in 1..Len(LayoutData)}

\* The number of lanes the packer opened for a zone: every lane it opens
\* receives the task it was opened for.
LanesOpened(zone) ==
    Cardinality({LayoutData[x].laneIndex : x \in ZoneEntries(zone)})

\* The zone's activities can be put in k lanes with no two activities of a
\* lane overlapping in [earlyStart, earlyFinish).
Packable(zone, k) ==
    \E f \in [ZoneEntries(zone) -> 1..k] :
        \A x, y \in ZoneEntries(zone) :
            (x # y /\ f[x] = f[y]) =>
                ~Overlap(calculatedTasks[LayoutData[x].task],
                         calculatedTasks[LayoutData[y].task])

\* C11 as the specification states it: for every zone the number of lanes
\* the packer opens is minimal, no assignment of the zone's activities to
\* fewer lanes keeps overlapping activities apart.
C11_LanesMinimal ==
    pc = "drawn" =>
        \A zone \in ZoneNames : ~Packable(zone, LanesOpened(zone) - 1)

\* C11, amended: for every zone whose activities all have a positive
\* duration the number of lanes the packer opens is minimal.
C11_LanesMinimalPositive ==
    pc = "drawn" =>
        \A zone \in ZoneNames :
            (\A x \in ZoneEntries(zone) :
                 calculatedTasks[LayoutData[x].task].duration > 0)
            => ~Packable(zone, LanesOpened(zone) - 1)

\* A zone of three activities of positive duration in two lanes, one of
\* them reused by an activity that starts where another finished.
C11_Witness ==
    /\ pc = "drawn"
    /\ \E zone \in ZoneNames :
          /\ Cardinality(ZoneEntries(zone)) = 3
          /\ LanesOpened(zone) = 2
          /\ \A x \in ZoneEntries(zone) :
                calculatedTasks[LayoutData[x].task].duration > 0
          /\ \E x, y \in ZoneEntries(zone) :
                /\ LayoutData[x].laneIndex = LayoutData[y].laneIndex
                /\ Val(calculatedTasks[LayoutData[x].task].earlyFinish) =
                      Val(calculatedTasks[LayoutData[y].task].earlyStart)

(***************************************************************************)
(* Claims about the solver as a whole.                                     *)
(***************************************************************************)
\* The six values the solver computes for an activity.
Timing(t) ==
    <<t.earlyStart, t.earlyFinish, t.lateStart, t.lateFinish, t.totalFloat,
      t.isCritical>>

\* C13: the solver's result does not depend on the order of the list: for
\* an acyclic activity set and every permutation of its list both loops
\* stop and every activity gets the values it gets in the original order.
C13_OrderIndependent ==
    (ValidInput(tasks) /\ pc = "solved") =>
        \A o \in ListOrders(Len(tasks)) :
            LET permuted == Solve(Permute(tasks, o))
            IN /\ permuted.stops
               /\ \A k \in 1..Len(tasks) :
                     Timing(permuted.tasks[k]) = Timing(calculatedTasks[o[k]])

\* A solved chain of three activities of positive duration, each listed
\* before its predecessor: the order that needs the most passes.
C13_Witness ==
    /\ ValidInput(tasks) /\ pc = "solved" /\ Len(tasks) = 3
    /\ tasks[1].predecessors = <<2>> /\ tasks[2].predecessors = <<3>>
    /\ \A i \in 1..3 : tasks[i].duration > 0
    /\ Val(calculatedTasks[1].earlyStart) = 2 * DurLong
    /\ Val(calculatedTasks[3].lateFinish) = DurLong

\* C14 as the specification states it: for an acyclic activity set the
\* forward loop makes at most |activities| full passes before it stops.
C14_ForwardPassesAtMostCount ==
    ValidInput(tasks) => fwdPasses <= Len(tasks)

\* C14, amended: for an acyclic activity set the forward loop makes at most
\* |activities| + 1 full passes before it stops, the last of which finds
\* nothing to change.
C14_ForwardPassesAtMostCountPlusOne ==
    ValidInput(tasks) =>
        /\ fwdPasses <= Len(tasks) + 1
        /\ (pc = "forward" /\ fwdPasses = Len(tasks)) =>
               ForwardSweep(calculatedTasks) = calculatedTasks

\* The forward loop has stopped after |activities| + 1 passes on a list of
\* three activities.
C14_Witness ==
    /\ ValidInput(tasks) /\ pc = "backinit"
    /\ Len(tasks) = 3 /\ fwdPasses = 4

\* C15: the engine never changes its caller's objects: no step of the solver
\* or of the layout changes the stored list, whose activities keep their
\* field values and their order, and the layout leaves the solved list it
\* is given as it is.
C15_CallerUnchanged ==
    [][/\ tasks' = tasks
       /\ pc = "solved" => calculatedTasks' = calculatedTasks]_vars

\* The layout is drawn for a list in which an activity sorts before one
\* listed ahead of it; the stored list has no computed field and the solved
\* list is in the order of the stored one.
C15_Witness ==
    /\ pc = "drawn"
    /\ NoComputedField(tasks) /\ ~NoComputedField(calculatedTasks)
    /\ \A i \in 1..Len(tasks) : calculatedTasks[i].id = tasks[i].id
    /\ \E i, j \in 1..Len(calculatedTasks) :
          i < j /\ SortsBefore(calculatedTasks, j, i)

(***************************************************************************)
(* Claims about the dependency connectors.                                 *)
(***************************************************************************)
\* The predecessor edges both drawings visit: a laid-out task and a listed
\* predecessor that the layout holds.
DrawnEdges ==
    {e \in (1..Len(LayoutData)) \X (1..Len(LayoutData)) :
        calculatedTasks[LayoutData[e[1]].task].id \in
            Range(calculatedTasks[LayoutData[e[2]].task].predecessors)}

\* C16: for every predecessor edge (p -> a) of a solved acyclic set the gap
\* a.earlyStart - p.earlyFinish is not negative; with gap = 0 the edge is
\* Contiguous and with gap > 0 it is Free-float, in the D3 renderer and in
\* the draw.io exporter alike.
C16_GapClassification ==
    (ValidInput(tasks) /\ pc = "drawn") =>
        \A e \in DrawnEdges :
            LET p == calculatedTasks[LayoutData[e[1]].task]
                a == calculatedTasks[LayoutData[e[2]].task]
                class == IF Gap(a, p) > 0 THEN "FreeFloat" ELSE "Contiguous"
            IN /\ Gap(a, p) >= 0
               /\ RenderClass(a, p) = class
               /\ ExportClass(a, p) = class

(***************************************************************************)
(* Claims about rows and zones.                                            *)
(***************************************************************************)
ZoneMeta == Val(processedData).zoneMeta

\* The position of a zone in the zone list.
ZonePosition(zone) == CHOOSE z \in 1..Len(ZoneMeta) : ZoneMeta[z].name = zone

\* C17: globalRowIndex = zoneStartRow + laneIndex names one row of the whole
\* layout: two activities have the same globalRowIndex only when they have
\* the same zone and the same laneIndex, and every globalRowIndex of a zone
\* is greater than every globalRowIndex of a zone earlier in the zone list.
C17_GlobalRowIdentifiesRow ==
    pc = "drawn" =>
        \A x, y \in 1..Len(LayoutData) :
            /\ LayoutData[x].globalRowIndex =
                  ZoneMeta[ZonePosition(LayoutData[x].zone)].startRow
                      + LayoutData[x].laneIndex
            /\ LayoutData[x].globalRowIndex = LayoutData[y].globalRowIndex =>
                  /\ LayoutData[x].zone = LayoutData[y].zone
                  /\ LayoutData[x].laneIndex = LayoutData[y].laneIndex
            /\ ZonePosition(LayoutData[x].zone) < ZonePosition(LayoutData[y].zone)
                  => LayoutData[x].globalRowIndex < LayoutData[y].globalRowIndex

\* Two zones with two lanes each: lane 1 of the first zone and lane 0 of the
\* second are different rows.
C17_Witness ==
    /\ pc = "drawn" /\ Len(ZoneMeta) = 2
    /\ \A zone \in ZoneNames : LanesOpened(zone) = 2
    /\ \E x, y \in 1..Len(LayoutData) :
          /\ ZonePosition(LayoutData[x].zone) = 1 /\ LayoutData[x].laneIndex = 1
          /\ ZonePosition(LayoutData[y].zone) = 2 /\ LayoutData[y].laneIndex = 0
          /\ LayoutData[x].globalRowIndex < LayoutData[y].globalRowIndex

\* C18: every zone has rowCount = max(lanes used, 3) and endRow = startRow +
\* rowCount; the first zone starts at row 0 and every later zone starts at
\* the endRow of the zone before it.
C18_ZoneRows ==
    pc = "drawn" =>
        \A z \in 1..Len(ZoneMeta) :
            /\ ZoneMeta[z].rowCount = Max({LanesOpened(ZoneMeta[z].name), 3})
            /\ ZoneMeta[z].endRow = ZoneMeta[z].startRow + ZoneMeta[z].rowCount
            /\ ZoneMeta[z].startRow = IF z = 1 THEN 0 ELSE ZoneMeta[z - 1].endRow

\* A zone that uses four lanes, one more than the minimum of three rows.
C18_Witness ==
    /\ pc = "drawn"
    /\ \E z \in 1..Len(ZoneMeta) :
          /\ LanesOpened(ZoneMeta[z].name) = 4
          /\ ZoneMeta[z].rowCount = 4

\* C27: the layout is complete and in range: every input activity has
\* exactly one layout entry, its laneIndex is at least 0 and less than the
\* number of lanes opened in its zone, and its globalRowIndex is at least
\* the zone's startRow and less than the zone's endRow.
C27_LayoutCompleteInRange ==
    pc = "drawn" =>
        /\ \A i \in 1..Len(calculatedTasks) :
              Cardinality({x \in 1..Len(LayoutData) :
                              LayoutData[x].task = i}) = 1
        /\ \A x \in 1..Len(LayoutData) :
              LET meta == ZoneMeta[ZonePosition(LayoutData[x].zone)]
              IN /\ LayoutData[x].task \in 1..Len(calculatedTasks)
                 /\ 0 <= LayoutData[x].laneIndex
                 /\ LayoutData[x].laneIndex < LanesOpened(LayoutData[x].zone)
                 /\ meta.startRow <= LayoutData[x].globalRowIndex
                 /\ LayoutData[x].globalRowIndex < meta.endRow

\* Four activities in two zones, the second zone with two lanes: the entry
\* in its lane 1 lies in the zone's last but one row.
C27_Witness ==
    /\ pc = "drawn" /\ Len(calculatedTasks) = 4 /\ Len(ZoneMeta) = 2
    /\ \E x \in 1..Len(LayoutData) :
          /\ ZonePosition(LayoutData[x].zone) = 2
          /\ LayoutData[x].laneIndex = 1
          /\ LanesOpened(LayoutData[x].zone) = 2
          /\ LayoutData[x].globalRowIndex = ZoneMeta[2].startRow + 1

\* C19: every activity is placed in exactly one zone, the zone of its label,
\* where an unset or empty label stands for the single default zone; the
\* zone list holds each label once, in ascending order.
C19_ZonePartition ==
    pc = "drawn" =>
        /\ \A i \in 1..Len(calculatedTasks) :
              LET label == calculatedTasks[i].zone
                  expected == IF label = Undefined \/ label = <<EmptyLabel>>
                              THEN DefaultZone ELSE Val(label)
              IN /\ Cardinality({x \in 1..Len(LayoutData) :
                                     LayoutData[x].task = i}) = 1
                 /\ \A x \in 1..Len(LayoutData) :
                       LayoutData[x].task = i =>
                           /\ LayoutData[x].zone = expected
                           /\ \E z \in 1..Len(ZoneMeta) :
                                 ZoneMeta[z].name = expected
        /\ \A z \in 1..Len(ZoneMeta) : ZoneMeta[z].name \in ZoneNames
        /\ \A z \in 1..(Len(ZoneMeta) - 1) :
              ZoneMeta[z].name < ZoneMeta[z + 1].name

\* Three activities, the first without a zone, the second with an empty
\* label and the third with a label that sorts before the default one: two
\* zones, the default zone last although its activities are listed first.
C19_Witness ==
    /\ pc = "drawn" /\ Len(calculatedTasks) = 3
    /\ calculatedTasks[1].zone = Undefined
    /\ calculatedTasks[2].zone = <<EmptyLabel>>
    /\ calculatedTasks[3].zone = <<DefaultZone - 1>>
    /\ Len(ZoneMeta) = 2
    /\ ZoneMeta[2].name = DefaultZone
    /\ Cardinality(ZoneEntries(DefaultZone)) = 2

(***************************************************************************)
(* The worked example.                                                     *)
(***************************************************************************)
\* The solved activity of an id.
Solved_ById(id) == calculatedTasks[TaskIndex(calculatedTasks, id)]

\* C20: for A (20), B (90, after A), C (30, after A), D (5, after B and C)
\* the solver returns A 0..20, B 20..110, C 20..50, D 110..115, a project
\* duration of 115, exactly A, B and D critical, and a total float of 60
\* for C.
C20_WorkedExample ==
    Solved =>
        /\ Solved_ById(1).earlyStart = <<0>>
        /\ Solved_ById(1).earlyFinish = <<Days(20)>>
        /\ Solved_ById(2).earlyStart = <<Days(20)>>
        /\ Solved_ById(2).earlyFinish = <<Days(110)>>
        /\ Solved_ById(3).earlyStart = <<Days(20)>>
        /\ Solved_ById(3).earlyFinish = <<Days(50)>>
        /\ Solved_ById(4).earlyStart = <<Days(110)>>
        /\ Solved_ById(4).earlyFinish = <<Days(115)>>
        /\ pDuration = <<Days(115)>>
        /\ pc = "drawn" => Val(processedData).projectDuration = Days(115)
        /\ {id \in 1..4 : Solved_ById(id).isCritical = <<TRUE>>} = {1, 2, 4}
        /\ Solved_ById(3).totalFloat = <<Days(60)>>

\* The example is solved from the list D, C, B, A.
C20_Witness ==
    /\ pc = "solved"
    /\ [k \in 1..4 |-> tasks[k].id] = <<4, 3, 2, 1>>
    /\ Solved_ById(4).isCritical = <<TRUE>>
    /\ Solved_ById(3).isCritical = <<FALSE>>

(***************************************************************************)
(* Claims about the editor.                                                *)
(***************************************************************************)
\* Every id a task of the active project has in some entry of the history.
\* Without undo the history holds every list the project has had.
IdsEverUsed ==
    UNION {UNION {Ids(history[h][k].tasks) :
                     k \in {x \in 1..Len(history[h]) :
                               history[h][x].id = activeProjectId}} :
             h \in 1..Len(history)}

\* C21: over any sequence of add-task and delete-task operations, the id of
\* a newly added task differs from every id a task of the project has ever
\* had, the ids of deleted tasks included.
C21_IdsNeverReused ==
    [][(pc = "drawn" /\ Len(tasks') = Len(tasks) + 1) =>
          tasks'[Len(tasks')].id \notin IdsEverUsed]_vars

\* C25: after any sequence of add-task, delete-task and update-task
\* operations from the initial project, every predecessor id of every task
\* is the id of a task of the project.
C25_NoDanglingPredecessor == NoUnknownPredecessor(tasks)

\* C28: after any sequence of add-project, delete-project, import-project,
\* select-project, undo and redo operations the active project resolves to
\* a project of the current project list: activeProject is never undefined
\* when the computation reads activeProject.tasks.
C28_ActiveProjectExists ==
    /\ ActiveProject(Projects, activeProjectId) # Undefined
    /\ pc # "error"

\* C29: after any sequence of edits, undo and redo operations historyIndex
\* is a valid index of history, 0 <= historyIndex <= history.length - 1;
\* undo at index 0 and redo at the last index change nothing; an edit made
\* after undos puts the new list right after the entry it was made from and
\* leaves historyIndex at the last entry, so no undone state can be redone.
C29_HistoryIndexValid ==
    [][/\ historyIndex \in 0..(Len(history) - 1)
       /\ historyIndex' \in 0..(Len(history') - 1)
       /\ (HandleUndo /\ historyIndex = 0) =>
             UNCHANGED <<history, historyIndex, activeProjectId, tasks, pc>>
       /\ (HandleRedo /\ historyIndex = Len(history) - 1) =>
             UNCHANGED <<history, historyIndex, activeProjectId, tasks, pc>>
       /\ history' # history =>
             /\ historyIndex' = Len(history') - 1
             /\ SubSeq(history', 1, historyIndex') =
                   SubSeq(history, 1, historyIndex + 1)]_vars

\* Two edits with an undo between them: the second edit has replaced the
\* first in the history.
C29_Witness ==
    /\ pc = "drawn" /\ edits = 2
    /\ Len(history) = 2 /\ historyIndex = 1

\* C30: end-date round trip in the schedule table: for every solved task,
\* selecting as new end date the very date the table displays for it (offset
\* earlyFinish - 1 when earlyFinish > earlyStart, else earlyFinish) leaves
\* the task's duration unchanged, zero-duration tasks included.
C30_EndDateRoundTrip ==
    [][\A i \in 1..Len(calculatedTasks) :
          HandleEndChange(i, FormatDateForInput(
                                <<DisplayEndOffset(calculatedTasks[i])>>)) =>
              \A j \in 1..Len(tasks') :
                  tasks'[j].id = calculatedTasks[i].id =>
                      tasks'[j].duration = calculatedTasks[i].duration]_vars

\* The stored tasks other than the one row i shows are as they were, and
\* the list has as many tasks as before.
OnlyRowChanged(i) ==
    /\ Len(tasks') = Len(tasks)
    /\ \A j \in 1..Len(tasks) :
          tasks[j].id # calculatedTasks[i].id => tasks'[j] = tasks[j]

\* C26: an update issued from the schedule table for task T, an edit of its
\* id included, changes only T: every other task of the active project
\* keeps all its fields and the number of tasks stays the same.
C26_UpdateChangesOnlyItsTask ==
    [][\A i \in 1..Len(calculatedTasks) :
          /\ \A j \in 1..Len(calculatedTasks) :
                TogglePredecessorOf(i, j) => OnlyRowChanged(i)
          /\ \A id \in TypedIds(i) : EditIdOf(i, id) => OnlyRowChanged(i)]_vars

(***************************************************************************)
(* Claims about the lane packer's choices.                                 *)
(***************************************************************************)
\* The lane was free when entry x was placed: the entry placed last in it
\* before x, if any, finishes no later than x starts, within the tolerance.
FreeWhenPlaced(x, lane) ==
    LET before == {y \in 1..(x - 1) :
                     /\ LayoutData[y].zone = LayoutData[x].zone
                     /\ LayoutData[y].laneIndex = lane}
    IN \/ before = {}
       \/ OrElse(calculatedTasks[LayoutData[Max(before)].task].earlyFinish, 0)
             <= OrElse(calculatedTasks[LayoutData[x].task].earlyStart, 0)
                  + LaneTolerance

\* The entries placed before x, in its zone, of predecessors of x that
\* finish where x starts and whose lane was free when x was placed.
AlignablePreds(x) ==
    {y \in 1..(x - 1) :
        /\ LayoutData[y].zone = LayoutData[x].zone
        /\ LayoutData[y].id \in
              Range(calculatedTasks[LayoutData[x].task].predecessors)
        /\ Abs(OrElse(calculatedTasks[LayoutData[y].task].earlyFinish, 0)
               - OrElse(calculatedTasks[LayoutData[x].task].earlyStart, 0))
             < AlignTolerance
        /\ FreeWhenPlaced(x, LayoutData[y].laneIndex)}

\* C22: an activity with a predecessor in its zone that finishes where the
\* activity starts and whose lane is free is assigned to the lane of such a
\* predecessor, whichever place that predecessor has in the activity's
\* predecessor list and whichever other lanes are free.
C22_AlignedWithPredecessor ==
    pc = "drawn" =>
        \A x \in 1..Len(LayoutData) :
            AlignablePreds(x) # {} =>
                \E y \in AlignablePreds(x) :
                    LayoutData[x].laneIndex = LayoutData[y].laneIndex

(***************************************************************************)
(* Claims about the reported analysis.                                     *)
(***************************************************************************)
\* The ids handed to onUpdateAnalysis.
CriticalPathIds == Val(processedData).criticalPathIds

\* The task of id p is listed as a predecessor of the task of id a.
PredecessorEdge(p, a) ==
    \E i \in 1..Len(calculatedTasks) :
        calculatedTasks[i].id = a /\ p \in Range(calculatedTasks[i].predecessors)

\* C23: the critical path reported to onUpdateAnalysis is a chain: its
\* consecutive ids are joined by a predecessor edge, read from the terminal
\* activity backward or from the first activity forward.  Stated for lists
\* of positive durations, on which the late times are the textbook ones.
C23_ReportedPathIsChain ==
    (/\ ValidInput(tasks) /\ pc = "drawn"
     /\ \A i \in 1..Len(tasks) : tasks[i].duration > 0) =>
        \/ \A k \in 1..(Len(CriticalPathIds) - 1) :
              PredecessorEdge(CriticalPathIds[k], CriticalPathIds[k + 1])
        \/ \A k \in 1..(Len(CriticalPathIds) - 1) :
              PredecessorEdge(CriticalPathIds[k + 1], CriticalPathIds[k])

(***************************************************************************)
(* Claims about the schedule table's date inputs.                          *)
(***************************************************************************)
\* The list with no constraintDate set.
WithoutConstraints(ts) ==
    [i \in 1..Len(ts) |-> [ts[i] EXCEPT !.constraintDate = Undefined]]

\* The list the first project was constructed with.
FirstTasks == history[1][1].tasks

====
